---------------------------- MODULE Spec2Model ----------------------------
(***************************************************************************)
(* Model of src/c/rowindex.c: the RowIndex constructors, rowindex_merge,   *)
(* rowindex_compactify and the OpenMP filter builder.                      *)
(*                                                                         *)
(* Machine integers are modelled with their two's-complement width, scaled *)
(* down: int32_t has Bits32 bits and int64_t has Bits64 bits, so that the  *)
(* boundaries INT32_MAX and INT64_MAX are values the model checker visits. *)
(* The chunk size of the filter builder (65536 in the source) is scaled    *)
(* the same way.                                                           *)
(***************************************************************************)
EXTENDS Integers, Sequences, FiniteSets, TLC

VARIABLES
    pc,          \* position of the calling (master) thread
    call,        \* the call being made: function name and arguments
    ret,         \* what the call returned (or how it failed to return)
    nrows,       \* rowindex_from_filterfn32: argument nrows
    sel,         \* rows the filter callback selects
    out,         \* shared output buffer `out`
    out_length,  \* shared counter `out_length`
    next_chunk,  \* next loop iteration the dynamic schedule hands out
    ordered_next,\* iteration whose ordered section may run next
    th,          \* per-thread private state of the parallel region
    claimed,     \* history: the ordered sections run so far, in order
    held,        \* history: the chunk whose rows a thread's scratch holds
    copies       \* history: per chunk, the copies of its rows into `out`

vars == <<pc, call, ret, nrows, sel, out, out_length, next_chunk, ordered_next, th,
          claimed, held, copies>>
seqvars == <<pc, call, ret>>
filtervars == <<nrows, sel, out, out_length, next_chunk, ordered_next, th,
                claimed, held, copies>>

---------------------------------------------------------------------------
(* Widths and bounds *)

Bits32 == 4
Bits64 == 8
MaxCount == 4
MaxTriples == 2
MaxLen == 3
MaxRows == 9
NumThreads == 2
MaxNRows == 6
rows_per_chunk == 2

INT32_MAX == 2^(Bits32 - 1) - 1
INT32_MIN == -(2^(Bits32 - 1))
INT64_MAX == 2^(Bits64 - 1) - 1
INT64_MIN == -(2^(Bits64 - 1))

\* Two's-complement wrap-around of x to w bits.
Wrap(w, x) == ((x + 2^(w - 1)) % 2^w) - 2^(w - 1)
\* (int32_t) x : conversion of a wider integer to int32_t.
Cast32(x) == Wrap(Bits32, x)
\* int64_t arithmetic result.
Wrap64(x) == Wrap(Bits64, x)
\* C integer division (truncation toward zero), b # 0.
CDiv(a, b) ==
    IF (a >= 0) = (b > 0)
    THEN (IF a >= 0 THEN a ELSE -a) \div (IF b > 0 THEN b ELSE -b)
    ELSE -((IF a >= 0 THEN a ELSE -a) \div (IF b > 0 THEN b ELSE -b))

SeqMin(s) == CHOOSE x \in {s[k] : k \in 1..Len(s)} : \A k \in 1..Len(s) : x <= s[k]
SeqMax(s) == CHOOSE x \in {s[k] : k \in 1..Len(s)} : \A k \in 1..Len(s) : x >= s[k]
\* All sequences over S of length at most n.
SeqsUpTo(S, n) == UNION {[1..k -> S] : k \in 0..n}

---------------------------------------------------------------------------
(* The RowIndex structure *)

\* A null pointer result.
NULL == [type |-> "NULL"]
\* The call never returns: the scan loops forever.
HANG == [type |-> "HANG"]
\* The call writes through a pointer it never set and faults.
SEGV == [type |-> "SEGV"]

\* buf tells where the payload lives: "none" (slice), "null" (NULL pointer),
\* "own" (allocated by the call), "stolen" (the caller's array, ownership
\* taken), "uninit" (the pointer field was never assigned).
RowIndex(type, length, min, max, start, step, ind, buf) ==
    [type |-> type, length |-> length, min |-> min, max |-> max,
     start |-> start, step |-> step, ind |-> ind, buf |-> buf]

IsRowIndex(r) == r.type \in {"SLICE", "ARR32", "ARR64"}

\* j after i iterations of `for (i = 0, j = start; ...; i++, j += step)`:
\* i additions of step in int64_t, each wrapping, which is start + i * step
\* wrapped once.
slice_j(start, step, i) == Wrap64(start + i * step)

\* ITER_ALL: the source rows j visited, in order; element i+1 is the j of
\* destination index i.
ITER_ALL(rowindex) ==
    IF rowindex.type = "SLICE"
    THEN [k \in 1..rowindex.length |-> slice_j(rowindex.start, rowindex.step, k - 1)]
    ELSE [k \in 1..rowindex.length |-> rowindex.ind[k]]

---------------------------------------------------------------------------
(* rowindex_compactify *)

\* The guard of lines 58-59: the call does nothing and returns 0.
compactify_noop(self) ==
    self.type # "ARR64" \/ self.max > INT32_MAX \/ self.length > INT32_MAX

\* The payload seen as 4-byte cells.  An int64_t element i (from 0) fills
\* cells 2i (its low half, the machine being little-endian) and 2i+1 (its
\* high half); an int32_t element i fills cell i.  Cell c of the model is
\* mem[c + 1].
ind64_cells(ind) ==
    [c \in 1..(2 * Len(ind)) |->
        [w |-> 64, half |-> (c - 1) % 2, val |-> ind[((c - 1) \div 2) + 1]]]

\* (int32_t) src[i]: the conversion keeps the low half of the eight bytes at
\* cells 2i and 2i+1, whatever was last stored in cell 2i.
narrow_src(mem, i) ==
    LET lo == mem[2 * i + 1]
    IN  IF lo.w = 64 THEN Cast32(lo.val) ELSE lo.val

\* The loop of lines 63-65 from iteration i on: res[i] = (int32_t) src[i]
\* stores into cell i.
RECURSIVE compactify_loop(_, _, _)
compactify_loop(mem, len, i) ==
    IF i >= len THEN mem
    ELSE compactify_loop(
             [mem EXCEPT ![i + 1] = [w |-> 32, half |-> 0, val |-> narrow_src(mem, i)]],
             len, i + 1)

\* The object `self` after the call.  dtrealloc keeps the first len cells.
rowindex_compactify(self) ==
    IF compactify_noop(self)
    THEN self
    ELSE LET len == Cast32(self.length)
             mem == compactify_loop(ind64_cells(self.ind), len, 0)
         IN  [self EXCEPT !.type = "ARR32",
                          !.ind = [k \in 1..len |-> mem[k].val]]

\* The pointer the call returns: 0, or self.
compactify_return(self) ==
    IF compactify_noop(self) THEN NULL ELSE rowindex_compactify(self)

---------------------------------------------------------------------------
(* rowindex_from_slice *)

Mut_slice_check_fails(start, count, step) ==
    \/ start < 0
    \/ count < 0
    \/ (count > 1 /\ step < -(CDiv(start, count - 1)))
slice_check_fails(start, count, step) ==
    \/ start < 0
    \/ count < 0
    \/ (count > 1 /\ step < -(CDiv(start, count - 1)))
    \/ (count > 1 /\ step > CDiv(INT64_MAX - start, count - 1))

rowindex_from_slice(start, count, step) ==
    IF slice_check_fails(start, count, step) THEN NULL
    ELSE RowIndex("SLICE", count,
            IF count = 0 THEN 0
            ELSE IF step >= 0 THEN start
            ELSE Wrap64(start + Wrap64(step * (count - 1))),
            IF count = 0 THEN 0
            ELSE IF step >= 0 THEN Wrap64(start + Wrap64(step * (count - 1)))
            ELSE start,
            start, step, <<>>, "none")

---------------------------------------------------------------------------
(* rowindex_from_slicelist *)

\* First loop: total count and the smallest/largest endpoint, or failure.
\* i is the 1-based position of the triple examined next.
RECURSIVE slicelist_scan(_, _, _, _, _, _, _, _)
slicelist_scan(starts, counts, steps, n, i, count, minidx, maxidx) ==
    IF i > n THEN [ok |-> TRUE, count |-> count, minidx |-> minidx, maxidx |-> maxidx]
    ELSE LET start == starts[i]
             step == steps[i]
             len == counts[i]
         IN  IF len = 0
             THEN slicelist_scan(starts, counts, steps, n, i + 1, count, minidx, maxidx)
             ELSE IF \/ len < 0
                     \/ start < 0
                     \/ Wrap64(count + len) > INT64_MAX
                     \/ (len > 1 /\ step < -(CDiv(start, len - 1)))
                     \/ (len > 1 /\ step > CDiv(INT64_MAX - start, len - 1))
             THEN [ok |-> FALSE, count |-> count, minidx |-> minidx, maxidx |-> maxidx]
             ELSE LET end == Wrap64(start + Wrap64(step * (len - 1)))
                      min1 == IF start < minidx THEN start ELSE minidx
                      max1 == IF start > maxidx THEN start ELSE maxidx
                      min2 == IF end < min1 THEN end ELSE min1
                      max2 == IF end > max1 THEN end ELSE max1
                  IN  slicelist_scan(starts, counts, steps, n, i + 1,
                                     Wrap64(count + len), min2, max2)

\* Inner loop `for (k = 0; k < l; k++, j += s) *rowsptr++ = j;` with
\* w-bit j, l, s.
Mut_slicelist_expand(w, j, l, s) ==
    IF l <= 0 THEN <<>> ELSE [k \in 1..l |-> j]
RECURSIVE slicelist_expand(_, _, _, _)
slicelist_expand(w, j, l, s) ==
    IF l <= 0 THEN <<>>
    ELSE <<j>> \o slicelist_expand(w, Wrap(w, j + s), l - 1, s)

\* Second loop: the segments concatenated in input order.
RECURSIVE slicelist_fill(_, _, _, _, _, _)
slicelist_fill(w, starts, counts, steps, n, i) ==
    IF i > n THEN <<>>
    ELSE slicelist_expand(w, Wrap(w, starts[i]), Wrap(w, counts[i]), Wrap(w, steps[i]))
         \o slicelist_fill(w, starts, counts, steps, n, i + 1)

rowindex_from_slicelist(starts, counts, steps, n) ==
    IF n < 0 THEN NULL
    ELSE LET sc == slicelist_scan(starts, counts, steps, n, 1, 0, INT64_MAX, 0)
             minidx == IF sc.maxidx = 0 THEN 0 ELSE sc.minidx
         IN  IF ~sc.ok THEN NULL
             ELSE IF sc.count <= INT32_MAX /\ sc.maxidx <= INT32_MAX
             THEN RowIndex("ARR32", sc.count, minidx, sc.maxidx, 0, 0,
                           slicelist_fill(Bits32, starts, counts, steps, n, 1), "own")
             ELSE RowIndex("ARR64", sc.count, minidx, sc.maxidx, 0, 0,
                           slicelist_fill(Bits64, starts, counts, steps, n, 1), "own")

---------------------------------------------------------------------------
(* rowindex_from_i32_array / rowindex_from_i64_array *)

\* The min/max scan `for (i = 1; i < n; i++)` over array[0..n-1]; m is the
\* pair <<min, max>> so far, i the 0-based index examined next.
RECURSIVE array_minmax(_, _, _, _)
array_minmax(array, n, i, m) ==
    IF i >= n THEN m
    ELSE LET x == array[i + 1]
         IN  array_minmax(array, n, i + 1,
                          <<IF x < m[1] THEN x ELSE m[1], IF x > m[2] THEN x ELSE m[2]>>)

rowindex_from_i32_array(array, n) ==
    IF n < 0 \/ n > INT32_MAX THEN NULL
    ELSE IF n = 0 THEN RowIndex("ARR32", n, 0, 0, 0, 0, array, "stolen")
    ELSE LET m == array_minmax(array, Cast32(n), 1, <<array[1], array[1]>>)
         IN  RowIndex("ARR32", n, m[1], m[2], 0, 0, array, "stolen")

rowindex_from_i64_array(array, n) ==
    IF n < 0 THEN NULL
    ELSE IF n = 0 THEN RowIndex("ARR64", n, 0, 0, 0, 0, array, "stolen")
    ELSE LET m == array_minmax(array, n, 1, <<array[1], array[1]>>)
         IN  RowIndex("ARR64", n, m[1], m[2], 0, 0, array, "stolen")

---------------------------------------------------------------------------
(* rowindex_from_datacolumn *)

ST_BOOLEAN_I1 == "ST_BOOLEAN_I1"
ST_INTEGER_I4 == "ST_INTEGER_I4"
Column(stype, data) == [stype |-> stype, data |-> data]

\* First pass: <<nout, maxrow>> after `for (i = 0; i < nrows; i++)`.
RECURSIVE datacolumn_count(_, _, _, _)
datacolumn_count(data, n, i, acc) ==
    IF i >= n THEN acc
    ELSE datacolumn_count(data, n, i + 1,
                          IF data[i + 1] = 1 THEN <<acc[1] + 1, i>> ELSE acc)

\* Second pass `for (i = 0, j = 0; i <= nn; i++) if (data[i] == 1) out[j++] = i;`
\* with a counter i whose type has maximum imax.  The loop ends only when
\* i > nn; when i = imax the increment overflows, which is undefined
\* (overflow |-> TRUE).
RECURSIVE datacolumn_scan(_, _, _, _, _)
datacolumn_scan(data, nn, imax, i, o) ==
    IF ~(i <= nn) THEN [overflow |-> FALSE, out |-> o]
    ELSE LET o1 == IF data[i + 1] = 1 THEN Append(o, i) ELSE o
         IN  IF i = imax THEN [overflow |-> TRUE, out |-> o1]
             ELSE datacolumn_scan(data, nn, imax, i + 1, o1)

\* The set of outcomes of the call: one result, or, where the scan's counter
\* overflows (undefined behaviour), what the builds make of it: the scan
\* never ends, it runs off the column and faults, or the compiler drops the
\* wrap-around and the call returns the positions found up to the counter's
\* maximum.
rowindex_from_datacolumn(col, n) ==
    IF col.stype # ST_BOOLEAN_I1 THEN {NULL}
    ELSE LET data == col.data
             cnt == datacolumn_count(data, n, 0, <<0, 0>>)
             nout == cnt[1]
             maxrow == cnt[2]
         IN  IF nout = 0
             THEN {RowIndex("ARR32", nout, 0, maxrow, 0, 0, <<>>, "null")}
             ELSE IF nout <= INT32_MAX /\ maxrow <= INT32_MAX
             THEN LET sc == datacolumn_scan(data, Cast32(maxrow), INT32_MAX, 0, <<>>)
                  IN  IF sc.overflow
                      THEN {HANG, SEGV,
                            RowIndex("ARR32", nout, sc.out[1], maxrow, 0, 0, sc.out, "own")}
                      ELSE {RowIndex("ARR32", nout, sc.out[1], maxrow, 0, 0, sc.out, "own")}
             ELSE LET sc == datacolumn_scan(data, maxrow, INT64_MAX, 0, <<>>)
                  IN  IF sc.overflow
                      THEN {HANG, SEGV,
                            RowIndex("ARR64", nout, sc.out[1], maxrow, 0, 0, sc.out, "own")}
                      ELSE {RowIndex("ARR64", nout, sc.out[1], maxrow, 0, 0, sc.out, "own")}

---------------------------------------------------------------------------
(* rowindex_from_column_with_rowindex *)

\* First ITER_ALL: <<nouts, maxrow>>; js is the sequence of visited j, k the
\* 1-based position examined next.
RECURSIVE view_count(_, _, _, _)
view_count(data, js, k, acc) ==
    IF k > Len(js) THEN acc
    ELSE view_count(data, js, k + 1,
                    IF data[js[k] + 1] = 1 THEN <<acc[1] + 1, js[k]>> ELSE acc)

\* The destination index i as it is stored: out[k++] = (int32_t) i or
\* (int64_t) i.
view_store(w, i) == Wrap(w, i)

\* Second ITER_ALL: the stored destination indices, w bits wide.
RECURSIVE view_fill(_, _, _, _)
view_fill(w, data, js, k) ==
    IF k > Len(js) THEN <<>>
    ELSE (IF data[js[k] + 1] = 1 THEN <<view_store(w, k - 1)>> ELSE <<>>)
         \o view_fill(w, data, js, k + 1)

\* The value the code writes to res->max.
view_max(nouts, maxrow, o) == maxrow

rowindex_from_column_with_rowindex(col, rowindex) ==
    IF col.stype # ST_BOOLEAN_I1 THEN NULL
    ELSE LET data == col.data
             js == ITER_ALL(rowindex)
             cnt == view_count(data, js, 1, <<0, 0>>)
             nouts == cnt[1]
             maxrow == cnt[2]
         IN  IF nouts = 0
             THEN RowIndex("ARR32", nouts, 0, maxrow, 0, 0, <<>>, "null")
             ELSE IF nouts <= INT32_MAX /\ maxrow <= INT32_MAX
             THEN LET o == view_fill(Bits32, data, js, 1)
                  IN  RowIndex("ARR32", nouts, o[1], view_max(nouts, maxrow, o), 0, 0, o, "own")
             ELSE LET o == view_fill(Bits64, data, js, 1)
                  IN  RowIndex("ARR64", nouts, o[1], view_max(nouts, maxrow, o), 0, 0, o, "own")

---------------------------------------------------------------------------
(* rowindex_merge *)

\* The gather loops: x = rows_ab[pos]; rows_ac[i] = x; if (x < min) min = x;
\* if (x > max) max = x;  ps is the sequence of positions read, k the
\* 1-based position examined next, acc = [rows, min, max].
RECURSIVE merge_gather(_, _, _, _)
merge_gather(rows_ab, ps, k, acc) ==
    IF k > Len(ps) THEN acc
    ELSE LET x == rows_ab[ps[k] + 1]
         IN  merge_gather(rows_ab, ps, k + 1,
                 [rows |-> Append(acc.rows, x),
                  min |-> IF x < acc.min THEN x ELSE acc.min,
                  max |-> IF x > acc.max THEN x ELSE acc.max])

\* min and max of the product of two slices (lines 415-416).
merge_slice_min(start, step, n) ==
    IF step >= 0 THEN start ELSE Wrap64(start + Wrap64(step * (n - 1)))
merge_slice_max(start, step, n) ==
    IF step >= 0 THEN Wrap64(start + Wrap64(step * (n - 1))) ELSE start

\* min and max of a slice applied over an array (lines 495-496).
Mut_merge_arr_min(start_ab, step_ab, ri_bc) ==
    Wrap64(start_ab + Wrap64(step_ab * ri_bc.min))
merge_arr_min(start_ab, step_ab, ri_bc) ==
    Wrap64(start_ab + Wrap64(step_ab * (IF step_ab >= 0 THEN ri_bc.min ELSE ri_bc.max)))
merge_arr_max(start_ab, step_ab, ri_bc) ==
    Wrap64(start_ab + Wrap64(step_ab * (IF step_ab >= 0 THEN ri_bc.max ELSE ri_bc.min)))

\* rowsres[i] = start_ab + rows_bc[i] * step_ab (lines 484-491).
merge_slice_over_array(start_ab, step_ab, rows_bc) ==
    [k \in 1..Len(rows_bc) |-> Wrap64(start_ab + Wrap64(rows_bc[k] * step_ab))]

\* case RI_SLICE of the switch (lines 396-467), ri_ab not NULL.
merge_bc_slice(ri_ab, ri_bc) ==
    LET n == ri_bc.length
        start_bc == ri_bc.start
        step_bc == ri_bc.step
    IN  IF ri_ab.type = "SLICE"
        THEN LET start == Wrap64(ri_ab.start + Wrap64(ri_ab.step * start_bc))
                 step == Wrap64(ri_ab.step * step_bc)
             IN  RowIndex("SLICE", n, merge_slice_min(start, step, n),
                          merge_slice_max(start, step, n), start, step, <<>>, "none")
        ELSE IF step_bc = 0
        THEN LET start == ri_ab.ind[start_bc + 1]
             IN  RowIndex("SLICE", n, start, start, start, 0, <<>>, "none")
        ELSE IF ri_ab.type = "ARR32"
        THEN LET g == merge_gather(ri_ab.ind, ITER_ALL(ri_bc), 1,
                                   [rows |-> <<>>, min |-> INT32_MAX, max |-> 0])
             IN  RowIndex("ARR32", n, g.min, g.max, 0, 0, g.rows, "own")
        ELSE LET g == merge_gather(ri_ab.ind, ITER_ALL(ri_bc), 1,
                                   [rows |-> <<>>, min |-> INT64_MAX, max |-> 0])
             IN  rowindex_compactify(
                     RowIndex("ARR64", n, g.min, g.max, 0, 0, g.rows, "own"))

\* `res` as lines 478-496 leave it, a slice ri_ab over an array ri_bc, at the
\* call of rowindex_compactify on line 497.
merge_slice_array_res(ri_ab, ri_bc) ==
    RowIndex("ARR64", ri_bc.length,
             merge_arr_min(ri_ab.start, ri_ab.step, ri_bc),
             merge_arr_max(ri_ab.start, ri_ab.step, ri_bc), 0, 0,
             merge_slice_over_array(ri_ab.start, ri_ab.step, ri_bc.ind),
             "own")

\* case RI_ARR32 / RI_ARR64 of the switch (lines 469-554), ri_ab not NULL.
merge_bc_array(ri_ab, ri_bc) ==
    LET n == ri_bc.length
    IN  IF ri_ab.type = "SLICE"
        THEN rowindex_compactify(merge_slice_array_res(ri_ab, ri_bc))
        ELSE IF ri_ab.type = "ARR32" /\ ri_bc.type = "ARR32"
        THEN LET g == merge_gather(ri_ab.ind, ri_bc.ind, 1,
                                   [rows |-> <<>>, min |-> INT32_MAX, max |-> 0])
             IN  RowIndex("ARR32", n, g.min, g.max, 0, 0, g.rows, "own")
        ELSE LET g == merge_gather(ri_ab.ind, ri_bc.ind, 1,
                                   [rows |-> <<>>, min |-> INT64_MAX, max |-> 0])
             IN  rowindex_compactify(
                     RowIndex("ARR64", n, g.min, g.max, 0, 0, g.rows, "own"))

\* ri_ab == NULL (lines 399-405 and 472-477).  For an array ri_bc the code
\* copies n elements to res->ind32, a field of the freshly allocated header
\* that was never assigned: the write goes wherever that field points.  It
\* either faults, or lands in memory the result does not own.
merge_clone(ri_bc) ==
    IF ri_bc.type = "SLICE"
    THEN {RowIndex("SLICE", ri_bc.length, ri_bc.min, ri_bc.max,
                   ri_bc.start, ri_bc.step, <<>>, "none")}
    ELSE {SEGV,
          RowIndex(ri_bc.type, ri_bc.length, ri_bc.min, ri_bc.max, 0, 0,
                   ri_bc.ind, "uninit")}

\* The set of outcomes of rowindex_merge(ri_ab, ri_bc).
rowindex_merge(ri_ab, ri_bc) ==
    IF ri_bc = NULL THEN {NULL}
    ELSE IF ri_bc.length = 0
    THEN {RowIndex("SLICE", 0, 0, 0, 0, 1, <<>>, "none")}
    ELSE IF ri_ab = NULL THEN merge_clone(ri_bc)
    ELSE IF ri_bc.type = "SLICE" THEN {merge_bc_slice(ri_ab, ri_bc)}
    ELSE {merge_bc_array(ri_ab, ri_bc)}

---------------------------------------------------------------------------
(* Inputs of the single-threaded calls *)

\* start: every value up to twice the 32-bit range, and the top of int64_t.
SliceStarts == (-1..(2 * INT32_MAX + 2)) \cup ((INT64_MAX - 2)..INT64_MAX)
SliceCounts == -1..(MaxCount + 2) \cup {INT64_MAX}
SliceSteps == INT64_MIN..INT64_MAX

TripleStarts == {-1, 0, 2, INT32_MAX + 1}
TripleCounts == {-1, 0, 1, MaxCount}
TripleSteps == {-1, 0, 1, INT64_MAX}

I32Values == {INT32_MIN, -1, 0, 1, 2, INT32_MAX}
I64Values == {INT64_MIN, -1, 0, 1, INT32_MAX + 1, INT64_MAX}

Bytes == {0, 1, 2}
\* Columns of n bytes with at most two bytes set to 1, n <= MaxRows.
SparseColumns ==
    {[k \in 1..n |-> IF k = a \/ k = b THEN 1 ELSE 0] :
        n \in 0..MaxRows, a \in 0..MaxRows, b \in 0..MaxRows}
DataColumns ==
    {Column(ST_BOOLEAN_I1, d) : d \in SeqsUpTo(Bytes, MaxLen + 1) \cup SparseColumns}
    \cup {Column(ST_INTEGER_I4, d) : d \in SeqsUpTo({1}, 2)}

\* Row indices over a view, as the constructors build them.
ViewSlices ==
    {rowindex_from_slice(s, c, t) : s \in 0..(MaxRows - 1), c \in 0..MaxRows, t \in -1..1}
    \ {NULL}
ViewArrays ==
    {rowindex_from_i32_array(a, Len(a)) : a \in SeqsUpTo(0..(MaxLen - 1), MaxLen)}
    \cup {rowindex_from_i64_array(a, Len(a)) : a \in SeqsUpTo(0..(MaxLen - 1), MaxLen)}
ViewColumns ==
    {Column(ST_BOOLEAN_I1, d) : d \in SeqsUpTo(Bytes, MaxLen) \cup SparseColumns}
    \cup {Column(ST_INTEGER_I4, <<1>>)}

\* Every source row the row index visits is a row of the column.
InColumn(rowindex, col) ==
    \A k \in 1..rowindex.length :
        ITER_ALL(rowindex)[k] \in 0..(Len(col.data) - 1)

\* Row indices handed to rowindex_merge, as the constructors build them.
MergeSlices ==
    {rowindex_from_slice(s, c, t) :
        s \in 0..MaxLen, c \in 0..MaxLen, t \in (-2..2) \cup {INT32_MAX}}
    \ {NULL}
MergeAb ==
    {NULL} \cup MergeSlices
    \cup {rowindex_from_i32_array(a, Len(a)) : a \in SeqsUpTo({0, 1, INT32_MAX}, MaxLen)}
    \cup {rowindex_from_i64_array(a, Len(a)) :
             a \in SeqsUpTo({0, INT32_MAX, INT32_MAX + 1}, MaxLen)}
MergeBc ==
    MergeSlices
    \cup {rowindex_from_i32_array(a, Len(a)) : a \in SeqsUpTo(0..(MaxLen - 1), MaxLen)}
    \cup {rowindex_from_i64_array(a, Len(a)) : a \in SeqsUpTo(0..(MaxLen - 1), MaxLen)}
    \cup {rowindex_from_column_with_rowindex(
              Column(ST_BOOLEAN_I1, [k \in 1..c |-> 1]),
              rowindex_from_slice(c - 1, c, -1)) : c \in 1..MaxLen}

\* Objects handed to rowindex_compactify: what the constructors build, an
\* array longer than INT32_MAX, and the `res` of rowindex_merge at line 497.
CompactifyInputs ==
    MergeSlices
    \cup {rowindex_from_i32_array(a, Len(a)) : a \in SeqsUpTo({0, 1, INT32_MAX}, MaxLen)}
    \cup {rowindex_from_i64_array(a, Len(a)) :
             a \in SeqsUpTo({0, 1, INT32_MAX, INT32_MAX + 1}, MaxLen)}
    \cup {rowindex_from_i64_array([k \in 1..(INT32_MAX + 1) |-> 0], INT32_MAX + 1)}
    \cup {merge_slice_array_res(p[1], p[2]) :
             p \in {q \in MergeSlices \X {r \in MergeBc : r.type # "SLICE"} :
                       /\ q[2].length > 0
                       /\ \A k \in 1..q[2].length :
                              q[2].ind[k] \in 0..(q[1].length - 1)}}

\* The precondition of rowindex_merge: every element of ri_bc is a valid
\* position of ri_ab.
ValidPositions(ri_ab, ri_bc) ==
    ri_ab # NULL =>
        \A k \in 1..ri_bc.length : ITER_ALL(ri_bc)[k] \in 0..(ri_ab.length - 1)

---------------------------------------------------------------------------
(* The single-threaded calls *)

NoCall == [fn |-> "none"]
NoThreads == [t \in 1..NumThreads |-> [pc |-> "idle"]]

InitSeq ==
    /\ pc = "idle"
    /\ call = NoCall
    /\ ret = NULL
    /\ nrows = 0
    /\ sel = {}
    /\ out = <<>>
    /\ out_length = 0
    /\ next_chunk = 0
    /\ ordered_next = 0
    /\ th = NoThreads
    /\ claimed = <<>>
    /\ held = [t \in 1..NumThreads |-> -1]
    /\ copies = <<>>

Returns(c, r) ==
    /\ pc' = "returned"
    /\ call' = c
    /\ ret' = r
    /\ UNCHANGED filtervars

CallFromSlice ==
    /\ pc = "idle"
    /\ \E start \in SliceStarts, count \in SliceCounts, step \in SliceSteps :
           Returns([fn |-> "rowindex_from_slice", start |-> start, count |-> count,
                    step |-> step],
                   rowindex_from_slice(start, count, step))

CallFromSlicelist ==
    /\ pc = "idle"
    /\ \E n \in 0..MaxTriples :
           \E starts \in [1..n -> TripleStarts], counts \in [1..n -> TripleCounts],
              steps \in [1..n -> TripleSteps] :
               Returns([fn |-> "rowindex_from_slicelist", starts |-> starts,
                        counts |-> counts, steps |-> steps, n |-> n],
                       rowindex_from_slicelist(starts, counts, steps, n))

CallFromI32Array ==
    /\ pc = "idle"
    /\ \E array \in SeqsUpTo(I32Values, MaxLen) :
           \E n \in {-1, Len(array)} :
               Returns([fn |-> "rowindex_from_i32_array", array |-> array, n |-> n],
                       rowindex_from_i32_array(array, n))

CallFromI64Array ==
    /\ pc = "idle"
    /\ \E array \in SeqsUpTo(I64Values, MaxLen) :
           \E n \in {-1, Len(array)} :
               Returns([fn |-> "rowindex_from_i64_array", array |-> array, n |-> n],
                       rowindex_from_i64_array(array, n))

CallFromDatacolumn ==
    /\ pc = "idle"
    /\ \E col \in DataColumns :
           \E n \in 0..Len(col.data) :
               \E r \in rowindex_from_datacolumn(col, n) :
                   Returns([fn |-> "rowindex_from_datacolumn", col |-> col, nrows |-> n], r)

CallFromColumnWithRowindex ==
    /\ pc = "idle"
    /\ \E col \in ViewColumns, rowindex \in ViewSlices \cup ViewArrays :
           /\ InColumn(rowindex, col)
           /\ Returns([fn |-> "rowindex_from_column_with_rowindex", col |-> col,
                       rowindex |-> rowindex],
                      rowindex_from_column_with_rowindex(col, rowindex))

CallMerge ==
    /\ pc = "idle"
    /\ \E ri_ab \in MergeAb, ri_bc \in MergeBc :
           /\ ValidPositions(ri_ab, ri_bc)
           /\ \E r \in rowindex_merge(ri_ab, ri_bc) :
                  Returns([fn |-> "rowindex_merge", ri_ab |-> ri_ab, ri_bc |-> ri_bc], r)

\* rowindex_compactify(self), and a second call on the same object.  `call`
\* keeps the object before (self) and after (after) the call.
CallCompactify ==
    /\ pc = "idle"
    /\ \E self \in CompactifyInputs :
           Returns([fn |-> "rowindex_compactify", self |-> self,
                    after |-> rowindex_compactify(self), nth |-> 1],
                   compactify_return(self))

CallCompactifyAgain ==
    /\ pc = "returned"
    /\ call.fn = "rowindex_compactify"
    /\ call.nth = 1
    /\ Returns([fn |-> "rowindex_compactify", self |-> call.after,
                after |-> rowindex_compactify(call.after), nth |-> 2],
               compactify_return(call.after))

\* rowindex_from_filterfn64 (lines 676-682): returns NULL for every nrows.
rowindex_from_filterfn64(n) == NULL

CallFromFilterfn64 ==
    /\ pc = "idle"
    /\ \E n \in {0, 1, INT32_MAX + 1} :
           Returns([fn |-> "rowindex_from_filterfn64", nrows |-> n],
                   rowindex_from_filterfn64(n))

\* rowindex_dealloc (lines 689-697): the blocks the destructor frees.  The
\* payload pointer of an array is freed whatever it is: a block the
\* constructor allocated, the caller's array, or a null pointer (nothing to
\* free); a pointer that was never assigned makes the call fault or free a
\* block the object does not own.
rowindex_dealloc(rowindex) ==
    IF rowindex = NULL THEN {[type |-> "VOID", freed |-> {}]}
    ELSE IF rowindex.type = "SLICE" \/ rowindex.buf = "null"
    THEN {[type |-> "VOID", freed |-> {"object"}]}
    ELSE IF rowindex.buf = "uninit"
    THEN {SEGV, [type |-> "VOID", freed |-> {"object", "foreign"}]}
    ELSE {[type |-> "VOID", freed |-> {"object", rowindex.buf}]}

\* The caller destroys the object the previous call returned.
CallDealloc ==
    /\ pc = "returned"
    /\ call.fn # "rowindex_dealloc"
    /\ ret = NULL \/ IsRowIndex(ret)
    /\ \E r \in rowindex_dealloc(ret) :
           /\ pc' = "freed"
           /\ call' = [fn |-> "rowindex_dealloc", rowindex |-> ret]
           /\ ret' = r
           /\ UNCHANGED filtervars

Next ==
    \/ CallFromSlice
    \/ CallFromSlicelist
    \/ CallFromI32Array
    \/ CallFromI64Array
    \/ CallFromDatacolumn
    \/ CallFromColumnWithRowindex
    \/ CallMerge
    \/ CallCompactify
    \/ CallCompactifyAgain
    \/ CallFromFilterfn64
    \/ CallDealloc

Spec == InitSeq /\ [][Next]_vars

---------------------------------------------------------------------------
(* rowindex_from_filterfn32 *)

Threads == 1..NumThreads
\* Content of memory that was allocated and not yet written.
Garbage == -1

num_chunks(n) == CDiv(n + rows_per_chunk - 1, rows_per_chunk)

\* min(a, b) of utils.h
min(a, b) == IF a < b THEN a ELSE b

\* The elements of a finite set of integers in ascending order.
RECURSIVE Ascending(_)
Ascending(S) ==
    IF S = {} THEN <<>>
    ELSE LET m == CHOOSE x \in S : \A y \in S : x <= y
         IN  <<m>> \o Ascending(S \ {m})

\* The filter callback, by its contract: the selected rows of [row0, row1)
\* in ascending order.
filterfn(row0, row1) == Ascending({r \in sel : row0 <= r /\ r < row1})

\* memcpy(out + out_offset, buf, buf_length * sizeof(int32_t))
memcpy_out(o, off, buf, len) ==
    [k \in 1..Len(o) |-> IF off < k /\ k <= off + len THEN buf[k - off] ELSE o[k]]

\* History of a memcpy into `out` by thread t: the copy is recorded under
\* the chunk whose rows the scratch holds, with the thread, the place of the
\* copy (loop start or flush), the destination offset and the rows copied.
copy_logged(t) ==
    [copies EXCEPT ![held[t] + 1] =
        Append(@, [by |-> t, at |-> th[t].pc, offset |-> th[t].out_offset,
                   rows |-> SubSeq(th[t].buf, 1, th[t].buf_length)])]

\* The turn of the ordered section: iterations enter it in loop order.
Mut_ordered_turn(t) == TRUE
ordered_turn(t) == th[t].i = ordered_next

\* Lines 584-606: the master thread allocates `out` and opens the parallel
\* region with a team of 1 .. NumThreads threads (the others are "absent");
\* every thread of the team starts with an empty scratch buffer.
CallFilter ==
    /\ pc = "idle"
    /\ \E n \in (0..MaxNRows) \cup {INT32_MAX + 1} :
          IF n > INT32_MAX
          THEN /\ pc' = "returned"
               /\ call' = [fn |-> "rowindex_from_filterfn32", nrows |-> n]
               /\ ret' = NULL
               /\ UNCHANGED filtervars
          ELSE \E s \in SUBSET (0..(n - 1)), team \in 1..NumThreads :
               /\ pc' = "parallel"
               /\ call' = [fn |-> "rowindex_from_filterfn32", nrows |-> n]
               /\ nrows' = n
               /\ sel' = s
               /\ out' = [k \in 1..n |-> Garbage]
               /\ out_length' = 0
               /\ next_chunk' = 0
               /\ ordered_next' = 0
               /\ th' = [t \in Threads |->
                           [pc |-> IF t <= team THEN "next" ELSE "absent", i |-> -1,
                            buf |-> [k \in 1..rows_per_chunk |-> Garbage],
                            buf_length |-> 0, out_offset |-> 0]]
               /\ copies' = [k \in 1..num_chunks(n) |-> <<>>]
               /\ UNCHANGED <<ret, claimed, held>>

\* Line 627 under schedule(dynamic, 1): the thread takes the next iteration
\* not yet handed out, or leaves the loop when none is left.
Mut_NextChunk(t) ==
    /\ pc = "parallel"
    /\ th[t].pc = "next"
    /\ IF next_chunk < num_chunks(nrows)
       THEN /\ th' = [th EXCEPT ![t].pc = "copy", ![t].i = next_chunk]
            /\ next_chunk' = next_chunk + 2
       ELSE /\ th' = [th EXCEPT ![t].pc = "barrier"]
            /\ UNCHANGED next_chunk
    /\ UNCHANGED <<pc, call, ret, nrows, sel, out, out_length, ordered_next>>
    /\ UNCHANGED <<claimed, held, copies>>
NextChunk(t) ==
    /\ pc = "parallel"
    /\ th[t].pc = "next"
    /\ IF next_chunk < num_chunks(nrows)
       THEN /\ th' = [th EXCEPT ![t].pc = "copy", ![t].i = next_chunk]
            /\ next_chunk' = next_chunk + 1
       ELSE /\ th' = [th EXCEPT ![t].pc = "barrier"]
            /\ UNCHANGED next_chunk
    /\ UNCHANGED <<pc, call, ret, nrows, sel, out, out_length, ordered_next>>
    /\ UNCHANGED <<claimed, held, copies>>

\* Lines 628-636: copy back the scratch of the thread's previous chunk.
CopyBack(t) ==
    /\ pc = "parallel"
    /\ th[t].pc = "copy"
    /\ IF th[t].buf_length # 0
       THEN /\ out' = memcpy_out(out, th[t].out_offset, th[t].buf, th[t].buf_length)
            /\ th' = [th EXCEPT ![t].pc = "filter", ![t].buf_length = 0]
            /\ copies' = copy_logged(t)
       ELSE /\ th' = [th EXCEPT ![t].pc = "filter"]
            /\ UNCHANGED <<out, copies>>
    /\ UNCHANGED <<pc, call, ret, nrows, sel, out_length, next_chunk, ordered_next>>
    /\ UNCHANGED <<claimed, held>>

\* Lines 638-640: the filter call on the chunk's rows.
Filter(t) ==
    /\ pc = "parallel"
    /\ th[t].pc = "filter"
    /\ LET row0 == th[t].i * rows_per_chunk
           row1 == min(row0 + rows_per_chunk, nrows)
           rows == filterfn(row0, row1)
       IN  th' = [th EXCEPT ![t].pc = "ordered",
                            ![t].buf = [k \in 1..rows_per_chunk |->
                                           IF k <= Len(rows) THEN rows[k] ELSE @[k]],
                            ![t].buf_length = Len(rows)]
    /\ held' = [held EXCEPT ![t] = th[t].i]
    /\ UNCHANGED <<pc, call, ret, nrows, sel, out, out_length, next_chunk, ordered_next>>
    /\ UNCHANGED <<claimed, copies>>

\* Lines 642-646: the ordered section.
Mut_Ordered(t) ==
    /\ pc = "parallel"
    /\ th[t].pc = "ordered"
    /\ ordered_turn(t)
    /\ th' = [th EXCEPT ![t].pc = "next",
                        ![t].out_offset = out_length + th[t].buf_length]
    /\ out_length' = out_length + th[t].buf_length
    /\ ordered_next' = ordered_next + 1
    /\ claimed' = Append(claimed, [chunk |-> th[t].i, by |-> t,
                                   offset |-> th'[t].out_offset,
                                   count |-> th[t].buf_length])
    /\ UNCHANGED <<pc, call, ret, nrows, sel, out, next_chunk, held, copies>>
Ordered(t) ==
    /\ pc = "parallel"
    /\ th[t].pc = "ordered"
    /\ ordered_turn(t)
    /\ th' = [th EXCEPT ![t].pc = "next", ![t].out_offset = out_length]
    /\ out_length' = out_length + th[t].buf_length
    /\ ordered_next' = ordered_next + 1
    /\ claimed' = Append(claimed, [chunk |-> th[t].i, by |-> t,
                                   offset |-> th'[t].out_offset,
                                   count |-> th[t].buf_length])
    /\ UNCHANGED <<pc, call, ret, nrows, sel, out, next_chunk, held, copies>>

\* The barrier that ends the `omp for` construct (line 647).
Barrier(t) ==
    /\ pc = "parallel"
    /\ th[t].pc = "barrier"
    /\ \A u \in Threads : th[u].pc \in {"barrier", "flush", "done", "absent"}
    /\ th' = [th EXCEPT ![t].pc = "flush"]
    /\ UNCHANGED <<pc, call, ret, nrows, sel, out, out_length, next_chunk, ordered_next>>
    /\ UNCHANGED <<claimed, held, copies>>

\* Lines 650-655: the flush after the loop.
Mut_Flush(t) ==
    /\ pc = "parallel"
    /\ th[t].pc = "flush"
    /\ th' = [th EXCEPT ![t].pc = "done"]
    /\ UNCHANGED <<pc, call, ret, nrows, sel, out, out_length, next_chunk, ordered_next>>
    /\ UNCHANGED <<claimed, held, copies>>
Flush(t) ==
    /\ pc = "parallel"
    /\ th[t].pc = "flush"
    /\ IF th[t].buf_length # 0
       THEN /\ out' = memcpy_out(out, th[t].out_offset, th[t].buf, th[t].buf_length)
            /\ copies' = copy_logged(t)
       ELSE UNCHANGED <<out, copies>>
    /\ th' = [th EXCEPT ![t].pc = "done"]
    /\ UNCHANGED <<pc, call, ret, nrows, sel, out_length, next_chunk, ordered_next>>
    /\ UNCHANGED <<claimed, held>>

\* Lines 656-671: the parallel region ends when every thread is done; the
\* master shrinks `out` and wraps it.
FilterReturn ==
    /\ pc = "parallel"
    /\ \A t \in Threads : th[t].pc \in {"done", "absent"}
    /\ LET o == SubSeq(out, 1, out_length)
       IN  /\ out' = o
           /\ ret' = RowIndex("ARR32", out_length,
                              IF out_length # 0 THEN o[1] ELSE 0,
                              IF out_length # 0 THEN o[out_length] ELSE 0,
                              0, 0, o, "own")
    /\ pc' = "returned"
    /\ UNCHANGED <<call, nrows, sel, out_length, next_chunk, ordered_next, th>>
    /\ UNCHANGED <<claimed, held, copies>>

NextFilter ==
    \/ CallFilter
    \/ \E t \in Threads : NextChunk(t)
    \/ \E t \in Threads : CopyBack(t)
    \/ \E t \in Threads : Filter(t)
    \/ \E t \in Threads : Ordered(t)
    \/ \E t \in Threads : Barrier(t)
    \/ \E t \in Threads : Flush(t)
    \/ FilterReturn

SpecFilter == InitSeq /\ [][NextFilter]_vars

\* A step of thread t inside the parallel region.
ThreadStep(t) ==
    \/ NextChunk(t)
    \/ CopyBack(t)
    \/ Filter(t)
    \/ Ordered(t)
    \/ Barrier(t)
    \/ Flush(t)

\* Every thread of the team keeps running (the callback of line 640 returns),
\* and the master continues once the region has ended.
SpecFilterFair ==
    /\ InitSeq
    /\ [][NextFilter]_vars
    /\ \A t \in Threads : WF_vars(ThreadStep(t))
    /\ WF_vars(FilterReturn)

---------------------------------------------------------------------------
(* Properties *)

Returned(fn) == pc = "returned" /\ call.fn = fn

StrictlyAscending(q) == \A k \in 1..(Len(q) - 1) : q[k] < q[k + 1]

\* The RowIndex invariants of the data model.
RowIndexInvariant(r) ==
    /\ r.length >= 0
    /\ r.type = "SLICE" =>
          /\ r.start >= 0
          /\ r.length > 0 =>
                LET e == r.start + r.step * (r.length - 1)
                IN  /\ 0 <= e /\ e <= INT64_MAX
                    /\ r.min = (IF r.step >= 0 THEN r.start ELSE e)
                    /\ r.max = (IF r.step >= 0 THEN e ELSE r.start)
    /\ r.type # "SLICE" =>
          /\ Len(r.ind) = r.length
          /\ \A k \in 1..r.length : r.ind[k] >= 0
          /\ r.length > 0 => r.min = SeqMin(r.ind) /\ r.max = SeqMax(r.ind)
          /\ r.type = "ARR32" => r.length <= INT32_MAX

\* C1: rowindex_from_filterfn32 returns an ARR32 that is strictly ascending,
\* holds a row r of [0, nrows) exactly when the filter selected r, and whose
\* length is the number of selected rows, whatever the assignment of chunks
\* to threads and the interleaving.
C1_FilterOrder ==
    (Returned("rowindex_from_filterfn32") /\ call.nrows <= INT32_MAX) =>
        /\ ret.type = "ARR32"
        /\ Len(ret.ind) = ret.length
        /\ StrictlyAscending(ret.ind)
        /\ \A r \in 0..(nrows - 1) :
              (r \in sel) <=> (\E k \in 1..Len(ret.ind) : ret.ind[k] = r)
        /\ \A k \in 1..Len(ret.ind) : ret.ind[k] \in 0..(nrows - 1)
        /\ ret.length = Cardinality(sel)

\* Both threads processed chunks, thread 2 took its last chunk before thread
\* 1 took its last, and rows of three different chunks were selected.
C1_Witness ==
    /\ Returned("rowindex_from_filterfn32")
    /\ IsRowIndex(ret)
    /\ th[2].i >= 0 /\ th[2].i < th[1].i
    /\ Cardinality({r \div rows_per_chunk : r \in sel}) >= 3

\* C2: for non-null ri_ab and ri_bc whose elements are valid positions of
\* ri_ab, rowindex_merge returns a RowIndex of length(ri_bc) whose i-th
\* element is ri_ab[ri_bc[i]].
C2_MergeSemantics ==
    (Returned("rowindex_merge") /\ call.ri_ab # NULL) =>
        /\ IsRowIndex(ret)
        /\ ret.length = call.ri_bc.length
        /\ \A k \in 1..call.ri_bc.length :
              ITER_ALL(ret)[k] = ITER_ALL(call.ri_ab)[ITER_ALL(call.ri_bc)[k] + 1]

\* C3: rowindex_merge(NULL, ri_bc) with a non-empty ri_bc returns a clone:
\* same variant, length, min, max and elements, and for an array ri_bc a
\* buffer the result allocated itself.
C3_MergeNullClone ==
    (Returned("rowindex_merge") /\ call.ri_ab = NULL /\ call.ri_bc.length > 0) =>
        /\ IsRowIndex(ret)
        /\ ret.type = call.ri_bc.type
        /\ ret.length = call.ri_bc.length
        /\ ret.min = call.ri_bc.min
        /\ ret.max = call.ri_bc.max
        /\ ITER_ALL(ret) = ITER_ALL(call.ri_bc)
        /\ ret.type \in {"ARR32", "ARR64"} => ret.buf = "own"

\* C4: for non-null ri_ab and ri_bc that satisfy the RowIndex invariants,
\* with ri_bc non-empty and its elements valid positions of ri_ab, the min
\* and max of the merged RowIndex are the minimum and maximum of the source
\* rows it produces.
C4_MergeRangeTight ==
    (/\ Returned("rowindex_merge")
     /\ call.ri_ab # NULL
     /\ call.ri_bc.length > 0
     /\ RowIndexInvariant(call.ri_ab)
     /\ RowIndexInvariant(call.ri_bc)) =>
        /\ IsRowIndex(ret)
        /\ ret.min = SeqMin(ITER_ALL(ret))
        /\ ret.max = SeqMax(ITER_ALL(ret))

\* A slice with a negative step merged over an array of several distinct
\* positions, both satisfying the invariants.
C4_Witness ==
    /\ Returned("rowindex_merge")
    /\ call.ri_ab # NULL
    /\ call.ri_ab.type = "SLICE" /\ call.ri_ab.step < 0
    /\ call.ri_bc.type = "ARR32" /\ call.ri_bc.length >= 2
    /\ call.ri_bc.min < call.ri_bc.max
    /\ RowIndexInvariant(call.ri_ab)
    /\ RowIndexInvariant(call.ri_bc)
    /\ ret.min < ret.max

\* The destination indices i whose source row j has byte 1, in iteration
\* order.
RECURSIVE SelectedPositions(_, _, _)
SelectedPositions(data, js, k) ==
    IF k > Len(js) THEN <<>>
    ELSE (IF data[js[k] + 1] = 1 THEN <<k - 1>> ELSE <<>>)
         \o SelectedPositions(data, js, k + 1)

\* C5: rowindex_from_column_with_rowindex on a selection of at least one row
\* returns min and max equal to the smallest and largest index it stores,
\* and chooses ARR32 exactly when the count and the largest emitted position
\* fit in 32 bits.
C5_ViewRangeTight ==
    (/\ Returned("rowindex_from_column_with_rowindex")
     /\ IsRowIndex(ret)
     /\ ret.length > 0) =>
        LET emitted == SelectedPositions(call.col.data, ITER_ALL(call.rowindex), 1)
        IN  /\ ret.min = SeqMin(ret.ind)
            /\ ret.max = SeqMax(ret.ind)
            /\ (ret.type = "ARR32") <=>
                   (Len(emitted) <= INT32_MAX /\ SeqMax(emitted) <= INT32_MAX)

\* C6: rowindex_from_slice returns no result exactly when start < 0, or
\* count < 0, or count > 1 and start + step*(count-1) is negative or exceeds
\* INT64_MAX; otherwise a SLICE of length count visiting start, start+step,
\* ... with min/max the endpoints ordered by the sign of step (both 0 when
\* count = 0).
C6_FromSlice ==
    Returned("rowindex_from_slice") =>
        LET start == call.start
            count == call.count
            step == call.step
            e == start + step * (count - 1)
            fails == \/ start < 0
                     \/ count < 0
                     \/ (count > 1 /\ (e < 0 \/ e > INT64_MAX))
        IN  /\ (ret = NULL) <=> fails
            /\ ~fails =>
                  /\ ret.type = "SLICE"
                  /\ ret.length = count
                  /\ ITER_ALL(ret) = [k \in 1..count |-> start + step * (k - 1)]
                  /\ ret.min = (IF count = 0 THEN 0 ELSE IF step >= 0 THEN start ELSE e)
                  /\ ret.max = (IF count = 0 THEN 0 ELSE IF step >= 0 THEN e ELSE start)

\* A slice of several rows walked backwards.
C6_Witness ==
    /\ Returned("rowindex_from_slice")
    /\ IsRowIndex(ret)
    /\ call.step < 0 /\ call.count > 2
    /\ ret.min = 0 /\ ret.max = call.start

TripleOK(start, count, step) ==
    ~(\/ start < 0
      \/ count < 0
      \/ (count > 1 /\ (start + step * (count - 1) < 0
                        \/ start + step * (count - 1) > INT64_MAX)))

\* The expansions of the triples i..n, concatenated.
RECURSIVE Expansion(_, _, _, _, _)
Expansion(starts, counts, steps, n, i) ==
    IF i > n THEN <<>>
    ELSE [k \in 1..counts[i] |-> starts[i] + steps[i] * (k - 1)]
         \o Expansion(starts, counts, steps, n, i + 1)

\* C7: rowindex_from_slicelist returns nothing if a non-empty triple violates
\* the checks of rowindex_from_slice; otherwise its elements are the
\* expansions of the triples concatenated in input order, its length is the
\* sum of the counts, its min/max are those of the stored elements, and it
\* is ARR32 exactly when length and max are both <= INT32_MAX, else ARR64.
C7_FromSlicelist ==
    Returned("rowindex_from_slicelist") =>
        LET n == call.n
            ok == \A i \in 1..n :
                     call.counts[i] # 0 =>
                        TripleOK(call.starts[i], call.counts[i], call.steps[i])
            want == Expansion(call.starts, call.counts, call.steps, n, 1)
        IN  /\ (ret = NULL) <=> ~ok
            /\ ok =>
                  /\ ret.type \in {"ARR32", "ARR64"}
                  /\ ret.ind = want
                  /\ ret.length = Len(want)
                  /\ Len(want) > 0 =>
                        ret.min = SeqMin(want) /\ ret.max = SeqMax(want)
                  /\ (ret.type = "ARR32") <=>
                         (ret.length <= INT32_MAX /\ ret.max <= INT32_MAX)

\* Two non-empty triples, one walked backwards, concatenated.
C7_Witness ==
    /\ Returned("rowindex_from_slicelist")
    /\ IsRowIndex(ret)
    /\ call.n = 2
    /\ call.counts[1] > 1 /\ call.steps[1] < 0
    /\ call.counts[2] > 1 /\ call.steps[2] > 0
    /\ ret.length = call.counts[1] + call.counts[2]

\* The positions of [0, n) whose byte is 1, ascending.
RECURSIVE OnesBelow(_, _)
OnesBelow(data, n) ==
    IF n <= 0 THEN <<>>
    ELSE OnesBelow(data, n - 1) \o (IF data[n] = 1 THEN <<n - 1>> ELSE <<>>)

\* C8: rowindex_from_datacolumn on a boolean column returns, ascending, the
\* positions of [0, nrows) whose byte is 1, with length their count, min the
\* first and max the greatest; an empty ARR32 with null payload and
\* min = max = 0 when none is selected; ARR32 whenever count and greatest
\* position are <= INT32_MAX (the scan terminating also when the greatest
\* position is INT32_MAX), ARR64 otherwise; no result for a non-boolean
\* column.
C8_FromDatacolumn ==
    Returned("rowindex_from_datacolumn") =>
        LET want == OnesBelow(call.col.data, call.nrows)
        IN  IF call.col.stype # ST_BOOLEAN_I1 THEN ret = NULL
            ELSE /\ IsRowIndex(ret)
                 /\ ret.length = Len(want)
                 /\ ret.ind = want
                 /\ Len(want) = 0 =>
                       ret.type = "ARR32" /\ ret.buf = "null" /\ ret.min = 0 /\ ret.max = 0
                 /\ Len(want) > 0 =>
                       /\ ret.min = want[1]
                       /\ ret.max = want[Len(want)]
                       /\ (ret.type = "ARR32") <=>
                              (Len(want) <= INT32_MAX /\ want[Len(want)] <= INT32_MAX)

\* C9: rowindex_from_column_with_rowindex stores, in iteration order, exactly
\* the positions i whose source row j has byte 1; its length is their number
\* and its elements are strictly increasing.
C9_ViewStoresPositions ==
    (Returned("rowindex_from_column_with_rowindex")
     /\ call.col.stype = ST_BOOLEAN_I1) =>
        LET want == SelectedPositions(call.col.data, ITER_ALL(call.rowindex), 1)
        IN  /\ IsRowIndex(ret)
            /\ ret.length = Len(want)
            /\ ret.ind = want
            /\ StrictlyAscending(ret.ind)

\* C10: every RowIndex a constructor or rowindex_merge returns produces only
\* source rows >= 0 and has 0 <= min <= max when it is not empty.
C10_NonNegative ==
    (pc = "returned" /\ call.fn # "rowindex_compactify" /\ IsRowIndex(ret)) =>
        /\ \A k \in 1..ret.length : ITER_ALL(ret)[k] >= 0
        /\ ret.length > 0 => (0 <= ret.min /\ ret.min <= ret.max)

\* C11: rowindex_compactify(self) on an ARR64 object with max <= INT32_MAX
\* and length <= INT32_MAX leaves self ARR32 with the same length, min and
\* max and with every 32-bit element equal to the 64-bit element it had, and
\* returns self; on every other object it returns 0 and leaves the object as
\* it was; a second call on the same object returns 0 and changes nothing.
C11_Compactify ==
    Returned("rowindex_compactify") =>
        /\ IF /\ call.self.type = "ARR64"
              /\ call.self.max <= INT32_MAX
              /\ call.self.length <= INT32_MAX
           THEN /\ ret = call.after
                /\ call.after.type = "ARR32"
                /\ call.after.length = call.self.length
                /\ call.after.min = call.self.min
                /\ call.after.max = call.self.max
                /\ Len(call.after.ind) = call.self.length
                /\ \A k \in 1..call.self.length :
                       call.after.ind[k] = call.self.ind[k]
           ELSE /\ ret = NULL
                /\ call.after = call.self
        /\ call.nth = 2 => (ret = NULL /\ call.after = call.self)

\* The same statement for objects that satisfy the structure's invariant
\* (every element lies in [0, max]).
C11_CompactifyOfValid ==
    (Returned("rowindex_compactify")
     /\ \A k \in 1..Len(call.self.ind) :
            0 <= call.self.ind[k] /\ call.self.ind[k] <= call.self.max)
        => C11_Compactify

---------------------------------------------------------------------------
(* The parallel region of rowindex_from_filterfn32 *)

InFilter ==
    /\ call.fn = "rowindex_from_filterfn32"
    /\ call.nrows <= INT32_MAX
    /\ pc \in {"parallel", "returned"}

\* The rows the callback selects in chunk c, and their number.
ChunkRows(c) ==
    filterfn(c * rows_per_chunk, min(c * rows_per_chunk + rows_per_chunk, nrows))
ChunkCount(c) == Len(ChunkRows(c))

\* Sum of the counts of the chunks 0 .. c-1.
RECURSIVE CountsBelow(_)
CountsBelow(c) == IF c <= 0 THEN 0 ELSE CountsBelow(c - 1) + ChunkCount(c - 1)

\* The output slots [offset, offset + count) of the k-th ordered section.
Region(k) == claimed[k].offset .. (claimed[k].offset + claimed[k].count - 1)

\* C12: out_length advances only in ordered sections; the ordered sections
\* run in increasing chunk index; the offset claimed by chunk c is the sum of
\* the counts of the chunks below c; the claimed regions are pairwise
\* disjoint and lie inside the nrows slots of `out`; and every memcpy into
\* `out` writes exactly a region claimed for a chunk the copying thread
\* processed.
C12_OffsetClaiming ==
    InFilter =>
        /\ Len(claimed) = ordered_next
        /\ out_length = CountsBelow(Len(claimed))
        /\ \A k \in 1..Len(claimed) :
               /\ claimed[k].chunk = k - 1
               /\ claimed[k].count = ChunkCount(k - 1)
               /\ claimed[k].offset = CountsBelow(k - 1)
               /\ Region(k) \subseteq 0..(nrows - 1)
        /\ \A j, k \in 1..Len(claimed) : j # k => Region(j) \cap Region(k) = {}
        /\ \A c \in 1..Len(copies) : \A w \in 1..Len(copies[c]) :
               \E k \in 1..Len(claimed) :
                   /\ claimed[k].by = copies[c][w].by
                   /\ claimed[k].offset = copies[c][w].offset
                   /\ claimed[k].count = Len(copies[c][w].rows)

\* Three chunks with selected rows, claimed by both threads, one of them
\* already copied.
C12_Witness ==
    /\ InFilter
    /\ Len(claimed) = 3
    /\ \A k \in 1..3 : claimed[k].count > 0
    /\ claimed[1].by # claimed[2].by
    /\ claimed[3].count < rows_per_chunk
    /\ \E c \in 1..Len(copies) : copies[c] # <<>>

\* Chunk c was copied once, by the thread that claimed it, to the offset it
\* claimed, and its rows are in `out`.
CopiedOnce(c) ==
    /\ c + 1 <= Len(claimed)
    /\ Len(copies[c + 1]) = 1
    /\ copies[c + 1][1].by = claimed[c + 1].by
    /\ copies[c + 1][1].offset = claimed[c + 1].offset
    /\ copies[c + 1][1].rows = ChunkRows(c)
    /\ \A k \in 1..ChunkCount(c) :
           out[claimed[c + 1].offset + k] = ChunkRows(c)[k]

\* C13: the rows of every chunk with a non-zero count are copied into `out`
\* at the chunk's claimed offset exactly once, by the thread that processed
\* it, at the start of its next iteration or in the flush; the copy is done
\* before the thread's scratch and out_offset are overwritten for its next
\* chunk, and before the region ends and `out` is shrunk; a chunk with count
\* zero is never copied and no chunk is copied twice.
C13_DeferredCopyBack ==
    InFilter =>
        /\ \A c \in 0..(Len(copies) - 1) :
               /\ Len(copies[c + 1]) <= 1
               /\ copies[c + 1] # <<>> => (ChunkCount(c) > 0 /\ CopiedOnce(c))
        /\ \A t \in Threads :
               (th[t].pc \in {"filter", "done"} /\ held[t] >= 0
                /\ (th[t].pc = "filter" => held[t] # th[t].i)
                /\ ChunkCount(held[t]) > 0)
                   => CopiedOnce(held[t])
        /\ \A t \in Threads :
               th[t].pc = "ordered" => held[t] = th[t].i
        /\ pc = "returned" =>
               \A c \in 0..(num_chunks(nrows) - 1) :
                   ChunkCount(c) > 0 => CopiedOnce(c)

\* A returned call in which one thread processed no chunk, a chunk was
\* copied at the start of the next iteration and another in the flush.
C13_Witness ==
    /\ InFilter
    /\ pc = "returned"
    /\ \E t \in Threads : held[t] = -1 /\ th[t].pc = "done"
    /\ \E c \in 1..Len(copies) : copies[c] # <<>> /\ copies[c][1].at = "copy"
    /\ \E c \in 1..Len(copies) : copies[c] # <<>> /\ copies[c][1].at = "flush"

\* Every chunk has entered and left its ordered section, in chunk order.
AllOrdered ==
    /\ Len(claimed) = num_chunks(nrows)
    /\ ordered_next = num_chunks(nrows)
    /\ \A c \in 0..(num_chunks(nrows) - 1) : claimed[c + 1].chunk = c

\* C14: under fair scheduling, once the parallel region is open the call
\* eventually returns a RowIndex, every chunk having entered and left its
\* ordered section and every thread of the team having left the region; for
\* every team size from 1 to NumThreads and every number of chunks.
C14_Termination ==
    (pc = "parallel")
        ~> /\ pc = "returned"
           /\ IsRowIndex(ret)
           /\ AllOrdered
           /\ \A t \in Threads : th[t].pc \in {"done", "absent"}

\* A returned call with chunks, fewer than the threads of its team.
C14_Witness ==
    /\ InFilter
    /\ pc = "returned"
    /\ IsRowIndex(ret)
    /\ num_chunks(nrows) > 0
    /\ num_chunks(nrows) < NumThreads
    /\ \A t \in Threads : th[t].pc = "done"

=============================================================================
